---- MODULE Spec2Model ----
(***************************************************************************)
(* Model of "Separador de Arquivos e Renomear/app.py": the PDFSplitter     *)
(* (validate_excel_data, sanitize_filename, dividir_pdf) and the part of   *)
(* Application that drives it (the four fields, validar_campos,            *)
(* iniciar_divisao, cancelar_operacao, update_progress).                   *)
(*                                                                         *)
(* Strings the code inspects character by character (the names of the      *)
(* spreadsheet, the pages-per-file field) are sequences of one-character   *)
(* strings.  The three path fields are only tested for emptiness and are   *)
(* plain strings.                                                          *)
(*                                                                         *)
(* Spec follows one press of "Iniciar" from the freshly constructed        *)
(* Application to the end of iniciar_divisao.  The spreadsheet and the PDF *)
(* are inputs read at lines 79 and 84-86, so their contents are chosen     *)
(* there.  cancelar_operacao may run at any moment of the run (the         *)
(* cancellation flag is the one value shared with the interactive side).   *)
(*                                                                         *)
(* SpecSanitize applies sanitize_filename to every string of at most       *)
(* MaxNameLen characters over SanAlphabet.                                 *)
(***************************************************************************)
EXTENDS Integers, Sequences, FiniteSets, TLC

\* ------------------------------------------------------------------ bounds
MaxPages == 5
MaxNames == 4
MaxNameLen == 3

\* ------------------------------------------------------------- characters
\* The character class of the regular expression at line 59.
IllegalChars == {"<", ">", ":", "\"", "/", "\\", "|", "?", "*"}

\* Characters str.strip() removes at both ends (line 60).
WhitespaceChars == {" ", "\t", "\n"}

SanAlphabet == IllegalChars \cup {" ", "\t", "a", "."}

PdfExt == <<".", "p", "d", "f">>

\* Characters str.isdigit() accepts (line 256): the decimal digits and other
\* digit characters such as SUPERSCRIPT TWO, written "sup2" here.
DecimalChars == {"0", "1", "2", "3", "4", "5", "6", "7", "8", "9"}
DigitChars == DecimalChars \cup {"sup2"}

DigitValue(c) ==
  CASE c = "0" -> 0 [] c = "1" -> 1 [] c = "2" -> 2 [] c = "3" -> 3
    [] c = "4" -> 4 [] c = "5" -> 5 [] c = "6" -> 6 [] c = "7" -> 7
    [] c = "8" -> 8 [] c = "9" -> 9 [] OTHER -> 0

\* ------------------------------------------------------------ pure helpers
\* re.sub(r'[<>:"/\\|?*]', '', filename): a left-to-right scan that drops
\* every character of the class and copies the others.
RECURSIVE ReSubIllegal(_)
ReSubIllegal(s) ==
  IF s = <<>> THEN <<>>
  ELSE IF Head(s) \in IllegalChars THEN ReSubIllegal(Tail(s))
  ELSE <<Head(s)>> \o ReSubIllegal(Tail(s))

RECURSIVE LStrip(_)
LStrip(s) ==
  IF s = <<>> THEN <<>>
  ELSE IF Head(s) \in WhitespaceChars THEN LStrip(Tail(s))
  ELSE s

RECURSIVE RStrip(_)
RStrip(s) ==
  IF s = <<>> THEN <<>>
  ELSE IF s[Len(s)] \in WhitespaceChars THEN RStrip(SubSeq(s, 1, Len(s) - 1))
  ELSE s

StripLeftOnly(s) == LStrip(s)

\* str.strip()
Strip(s) == RStrip(LStrip(s))

sanitize_filename(filename) == Strip(ReSubIllegal(filename))

\* str.isdigit(): non-empty and every character a digit character.
IsDigit(s) == s # <<>> /\ \A k \in 1..Len(s) : s[k] \in DigitChars

\* int(s) for a string that passed isdigit(): the decimal value, or
\* ValueError (-1 here) when some digit character is not a decimal digit.
RECURSIVE DecimalValue(_)
DecimalValue(s) ==
  IF s = <<>> THEN 0
  ELSE 10 * DecimalValue(SubSeq(s, 1, Len(s) - 1)) + DigitValue(s[Len(s)])

ValueError == -1

IntParse(s) ==
  IF \A k \in 1..Len(s) : s[k] \in DecimalChars THEN DecimalValue(s)
  ELSE ValueError


\* ------------------------------------------------------------------ inputs
\* What a path field can hold: nothing (a dismissed dialog returns "") or a
\* path.
PathInputs == {"", "p"}

\* What the operator can type into the pages-per-file field.
PageFieldInputs ==
  { <<>>, <<"0">>, <<"1">>, <<"2">>, <<"3">>, <<"0", "0">>, <<"0", "2">>,
    <<"-", "1">>, <<" ", "2">>, <<"2", "x">>, <<"sup2">> }

\* A cell of the first column: a text, or a missing value (NaN), whose
\* str() is "nan".
TextCell(t) == [isnull |-> FALSE, text |-> t]
NaNCell == [isnull |-> TRUE, text |-> <<"n", "a", "n">>]

\* The texts of the model's spreadsheets: two that sanitize to the same
\* file name, one that does not.
CellTexts == { <<"a">>, <<" ", "a", "?">>, <<"b">> }
Cells == {TextCell(t) : t \in CellTexts} \cup {NaNCell}

\* The rows pd.read_excel can return (the header row is not a row).
DataFrames == UNION {[1..n -> Cells] : n \in 0..MaxNames}

\* ------------------------------------------------------------------- state
VARIABLES
  pc,                   \* where the run is
  pdf_path, excel_path, output_folder, paginas_por_arquivo,  \* the fields
  progress_var,         \* Application.progress_var
  dialogs,              \* the message boxes shown so far, in order
  uncaught,             \* an exception left iniciar_divisao
  cancel_operation,     \* PDFSplitter.cancel_operation
  paginas,              \* dividir_pdf's parameter paginas_por_arquivo
  df,                   \* dividir_pdf's df
  total_paginas, total_steps, i,   \* dividir_pdf's locals
  success,              \* what dividir_pdf returned: "unset", "True", "False"
  outcome,              \* which return statement was taken
  disk,                 \* output_folder: file name -> content
  chunks,               \* the page sequence given to each PdfWriter, in order
  attempts,             \* the chunk index of each write attempted, in order
  writes,               \* the file name of each write that succeeded, in order
  reported,             \* the values passed to progress_callback, in order
  sanPc, sanIn, sanOut, sanFile   \* SpecSanitize: input, result, file name

shellVars == <<pdf_path, excel_path, output_folder, paginas_por_arquivo>>
localVars == <<paginas, df, total_paginas, total_steps, i>>
histVars == <<chunks, attempts, writes, reported>>
sanVars == <<sanPc, sanIn, sanOut, sanFile>>
vars == <<pc, shellVars, progress_var, dialogs, uncaught, cancel_operation,
          localVars, success, outcome, disk, histVars, sanVars>>

\* A progress value num/den.  The code computes it in binary floating point
\* as (k / n) * 100; correctly rounded division and multiplication are
\* monotone and n / n is exactly 1.0, so order and the value 100 are those
\* of the exact quotient kept here.
Rat(n, d) == [num |-> n, den |-> d]
RatLeq(a, b) == a.num * b.den <= b.num * a.den
RatEq(a, b) == a.num * b.den = b.num * a.den

EmptyDisk == [f \in {} |-> [complete |-> TRUE, pages |-> <<>>]]

SanIdle == sanPc = "off" /\ sanIn = <<>> /\ sanOut = <<>> /\ sanFile = <<>>

MainInit ==
  /\ pc = "idle"
  /\ pdf_path = "" /\ excel_path = "" /\ output_folder = ""
  /\ paginas_por_arquivo = <<>>
  /\ progress_var = Rat(0, 1)
  /\ dialogs = <<>>
  /\ uncaught = FALSE
  /\ cancel_operation = FALSE
  /\ paginas = 0 /\ df = <<>> /\ total_paginas = 0 /\ total_steps = 0 /\ i = 0
  /\ success = "unset"
  /\ outcome = "none"
  /\ disk = EmptyDisk
  /\ chunks = <<>> /\ attempts = <<>> /\ writes = <<>> /\ reported = <<>>

Init == MainInit /\ SanIdle


\* ------------------------------------------------------- Application: fields
\* The fields are edited between runs: while iniciar_divisao runs, the fields
\* were already read (lines 269-272).
selecionar_pdf ==
  /\ pc = "idle"
  /\ \E v \in PathInputs : pdf_path' = v
  /\ UNCHANGED <<pc, excel_path, output_folder, paginas_por_arquivo,
                 progress_var, dialogs, uncaught, cancel_operation, localVars,
                 success, outcome, disk, histVars, sanVars>>

selecionar_excel ==
  /\ pc = "idle"
  /\ \E v \in PathInputs : excel_path' = v
  /\ UNCHANGED <<pc, pdf_path, output_folder, paginas_por_arquivo,
                 progress_var, dialogs, uncaught, cancel_operation, localVars,
                 success, outcome, disk, histVars, sanVars>>

selecionar_pasta_saida ==
  /\ pc = "idle"
  /\ \E v \in PathInputs : output_folder' = v
  /\ UNCHANGED <<pc, pdf_path, excel_path, paginas_por_arquivo,
                 progress_var, dialogs, uncaught, cancel_operation, localVars,
                 success, outcome, disk, histVars, sanVars>>

\* The Entry bound to paginas_por_arquivo (line 174).
digitar_paginas ==
  /\ pc = "idle"
  /\ \E v \in PageFieldInputs : paginas_por_arquivo' = v
  /\ UNCHANGED <<pc, pdf_path, excel_path, output_folder,
                 progress_var, dialogs, uncaught, cancel_operation, localVars,
                 success, outcome, disk, histVars, sanVars>>

cancelar_operacao ==
  /\ cancel_operation' = TRUE
  /\ UNCHANGED <<pc, shellVars, progress_var, dialogs, uncaught, localVars,
                 success, outcome, disk, histVars, sanVars>>

\* validar_campos: the message it shows, or "ok".
AllFilled(a, b, c) == a # "" /\ b # "" /\ c # ""

validar_campos ==
  IF ~AllFilled(pdf_path, excel_path, output_folder) THEN "CamposObrigatorios"
  ELSE IF ~IsDigit(paginas_por_arquivo) THEN "NaoNumerico"
  ELSE "ok"

\* iniciar_divisao, lines 264-267: validate, then clear the flag.
iniciar_divisao ==
  /\ pc = "idle"
  /\ IF validar_campos # "ok"
       THEN /\ dialogs' = Append(dialogs, validar_campos)
            /\ pc' = "done"
            /\ UNCHANGED cancel_operation
       ELSE /\ cancel_operation' = FALSE
            /\ pc' = "call"
            /\ UNCHANGED dialogs
  /\ UNCHANGED <<shellVars, progress_var, uncaught, localVars, success,
                 outcome, disk, histVars, sanVars>>

\* iniciar_divisao, lines 268-274: evaluate the arguments and enter
\* dividir_pdf.  A ValueError of int() leaves iniciar_divisao uncaught.
chamar_dividir_pdf ==
  /\ pc = "call"
  /\ IF IntParse(paginas_por_arquivo) = ValueError
       THEN /\ uncaught' = TRUE
            /\ pc' = "done"
            /\ UNCHANGED paginas
       ELSE /\ paginas' = IntParse(paginas_por_arquivo)
            /\ pc' = "read_excel"
            /\ UNCHANGED uncaught
  /\ UNCHANGED <<shellVars, progress_var, dialogs, cancel_operation, df,
                 total_paginas, total_steps, i, success, outcome, disk,
                 histVars, sanVars>>

\* ------------------------------------------------------------- PDFSplitter
\* A return of dividir_pdf: the value, the return statement taken, and the
\* message boxes shown on the way.
Return(val, why, msgs) ==
  /\ success' = val
  /\ outcome' = why
  /\ dialogs' = dialogs \o msgs
  /\ pc' = "returned"

\* The outer handler, lines 127-130.
Raise == Return("False", "Exception", <<"ErroProcessamento">>)

\* validate_excel_data: the message it shows, or "ok".
validate_excel_data(d) ==
  IF Len(d) = 0 THEN "PlanilhaVazia"
  ELSE IF \E r \in 1..Len(d) : d[r].isnull THEN "CelulasVazias"
  ELSE "ok"

\* Lines 79-81: read the spreadsheet (which may raise) and validate it.
ReadExcel ==
  /\ pc = "read_excel"
  /\ \E readable \in BOOLEAN, rows \in DataFrames :
       IF ~readable
         THEN Raise /\ UNCHANGED df
         ELSE /\ df' = rows
              /\ IF validate_excel_data(rows) # "ok"
                   THEN Return("False", "InvalidInput",
                               <<validate_excel_data(rows)>>)
                   ELSE /\ pc' = "open_pdf"
                        /\ UNCHANGED <<success, outcome, dialogs>>
  /\ UNCHANGED <<shellVars, progress_var, uncaught, cancel_operation, paginas,
                 total_paginas, total_steps, i, disk, histVars, sanVars>>

\* Line 89.  Only evaluated for ppf # 0 (ZeroDivisionError otherwise).
TotalStepsAlwaysPlusOne(n, ppf) == (n \div ppf) + 1

TotalSteps(n, ppf) == (n \div ppf) + (IF n % ppf # 0 THEN 1 ELSE 0)

\* Line 92, negated.
EnoughNamesOffByOne(steps, d) == ~(steps > Len(d) + 1)

EnoughNames(steps, d) == ~(steps > Len(d))

\* Lines 84-95: open the PDF (which may raise), count its pages, compute the
\* number of files and compare it with the number of names.
OpenPdf ==
  /\ pc = "open_pdf"
  /\ \E readable \in BOOLEAN, n \in 0..MaxPages :
       IF ~readable
         THEN Raise /\ UNCHANGED <<total_paginas, total_steps, i>>
       ELSE IF paginas = 0
         THEN /\ total_paginas' = n
              /\ Raise
              /\ UNCHANGED <<total_steps, i>>
       ELSE /\ total_paginas' = n
            /\ total_steps' = TotalSteps(n, paginas)
            /\ IF ~EnoughNames(TotalSteps(n, paginas), df)
                 THEN /\ Return("False", "InsufficientNames",
                                <<"NomesInsuficientes">>)
                      /\ UNCHANGED i
                 ELSE /\ i' = 0
                      /\ pc' = "loop"
                      /\ UNCHANGED <<success, outcome, dialogs>>
  /\ UNCHANGED <<shellVars, progress_var, uncaught, cancel_operation, paginas,
                 df, disk, histVars, sanVars>>

\* Lines 98-101 and 125-126: the head of the loop over
\* range(0, total_paginas, paginas_por_arquivo), with the flag's check.
LoopHead ==
  /\ pc = "loop"
  /\ IF ~(i < total_paginas)
       THEN Return("True", "Success", <<>>)
     ELSE IF cancel_operation
       THEN Return("False", "Cancelled", <<>>)
     ELSE /\ pc' = "write"
          /\ UNCHANGED <<success, outcome, dialogs>>
  /\ UNCHANGED <<shellVars, progress_var, uncaught, cancel_operation,
                 localVars, disk, histVars, sanVars>>

Min(a, b) == IF a <= b THEN a ELSE b

\* Lines 104-106: the pages range(i, min(i + ppf, total)) added to the writer.
ChunkPagesNoMin(start, ppf, total) == [j \in 1..ppf |-> start + j - 1]

ChunkPages(start, ppf, total) ==
  [j \in 1..(Min(start + ppf, total) - start) |-> start + j - 1]

\* Line 109: the file name of the chunk that starts at page start.
novo_nome(d, start, ppf) ==
  sanitize_filename(d[(start \div ppf) + 1].text) \o PdfExt

WithFile(dsk, name, content) ==
  [f \in DOMAIN dsk \cup {name} |-> IF f = name THEN content ELSE dsk[f]]

\* Lines 103-119: build the writer, resolve the name, write the file.  A
\* failure is either open() raising (the file is untouched) or write()
\* raising after open(..., 'wb') truncated the file.  df.iloc raises
\* IndexError for a row the spreadsheet does not have (outer handler).
WriteChunk ==
  /\ pc = "write"
  /\ LET pages == ChunkPages(i, paginas, total_paginas)
         name == novo_nome(df, i, paginas)
     IN /\ chunks' = Append(chunks, pages)
        /\ attempts' = Append(attempts, i \div paginas)
        /\ \E result \in {"written", "open_failed", "write_failed"} :
             IF (i \div paginas) + 1 \notin DOMAIN df
               THEN Raise /\ UNCHANGED <<disk, writes>>
             ELSE IF result = "written"
               THEN /\ disk' = WithFile(disk, name,
                                        [complete |-> TRUE, pages |-> pages])
                    /\ writes' = Append(writes, name)
                    /\ pc' = "progress"
                    /\ UNCHANGED <<success, outcome, dialogs>>
               ELSE /\ disk' = IF result = "open_failed" THEN disk
                               ELSE WithFile(disk, name,
                                      [complete |-> FALSE, pages |-> <<>>])
                    /\ Return("False", "WriteFailed", <<"ErroSalvar">>)
                    /\ UNCHANGED writes
  /\ UNCHANGED <<shellVars, progress_var, uncaught, cancel_operation,
                 localVars, reported, sanVars>>

\* Line 122.
Progress(start, ppf, steps) == Rat(((start \div ppf) + 1) * 100, steps)

\* Lines 121-123 and the loop's step: report through update_progress, then
\* advance i.
ReportProgress ==
  /\ pc = "progress"
  /\ progress_var' = Progress(i, paginas, total_steps)
  /\ reported' = Append(reported, Progress(i, paginas, total_steps))
  /\ i' = i + paginas
  /\ pc' = "loop"
  /\ UNCHANGED <<shellVars, dialogs, uncaught, cancel_operation, paginas, df,
                 total_paginas, total_steps, success, outcome, disk, chunks,
                 attempts, writes, sanVars>>

\* iniciar_divisao, lines 276-279: the terminal message.
TerminalMessageIgnoringFlag(ok, flag) ==
  IF ok = "True" THEN <<"Concluido">> ELSE <<"ErroShell">>

TerminalMessage(ok, flag) ==
  IF ok = "True" THEN <<"Concluido">>
  ELSE IF ~flag THEN <<"ErroShell">>
  ELSE <<>>

mostrar_resultado ==
  /\ pc = "returned"
  /\ dialogs' = dialogs \o TerminalMessage(success, cancel_operation)
  /\ pc' = "done"
  /\ UNCHANGED <<shellVars, progress_var, uncaught, cancel_operation,
                 localVars, success, outcome, disk, histVars, sanVars>>

Next ==
  \/ selecionar_pdf
  \/ selecionar_excel
  \/ selecionar_pasta_saida
  \/ digitar_paginas
  \/ cancelar_operacao
  \/ iniciar_divisao
  \/ chamar_dividir_pdf
  \/ ReadExcel
  \/ OpenPdf
  \/ LoopHead
  \/ WriteChunk
  \/ ReportProgress
  \/ mostrar_resultado

Spec == Init /\ [][Next]_vars


\* ------------------------------------------------- sanitize_filename alone
SanStrings == UNION {[1..n -> SanAlphabet] : n \in 0..MaxNameLen}

InitSanitize ==
  /\ MainInit
  /\ sanPc = "input" /\ sanIn \in SanStrings /\ sanOut = <<>> /\ sanFile = <<>>

\* The call of sanitize_filename (lines 58-60).
Sanitize ==
  /\ sanPc = "input"
  /\ sanOut' = sanitize_filename(sanIn)
  /\ sanPc' = "sanitized"
  /\ UNCHANGED <<pc, shellVars, progress_var, dialogs, uncaught,
                 cancel_operation, localVars, success, outcome, disk,
                 histVars, sanIn, sanFile>>

\* The concatenation of line 109.
AppendExt ==
  /\ sanPc = "sanitized"
  /\ sanFile' = sanOut \o PdfExt
  /\ sanPc' = "named"
  /\ UNCHANGED <<pc, shellVars, progress_var, dialogs, uncaught,
                 cancel_operation, localVars, success, outcome, disk,
                 histVars, sanIn, sanOut>>

NextSanitize == Sanitize \/ AppendExt

SpecSanitize == InitSanitize /\ [][NextSanitize]_vars


\* ------------------------------------------------------------------ claims
Range(q) == {q[k] : k \in 1..Len(q)}

RECURSIVE Flatten(_)
Flatten(qs) == IF qs = <<>> THEN <<>> ELSE Head(qs) \o Flatten(Tail(qs))

\* ceil(n / d) for n >= 0, d >= 1: the least q with q * d >= n.
CeilDiv(n, d) == CHOOSE q \in 0..n : q * d >= n /\ \A r \in 0..(q - 1) : r * d < n

\* The pages [k*ppf, min((k+1)*ppf, total)) of chunk k.
PageRange(k, ppf, total) ==
  [j \in 1..(Min((k + 1) * ppf, total) - k * ppf) |-> k * ppf + j - 1]

\* Line 89 was executed in this run.
StepsComputed ==
  \/ pc \in {"loop", "write", "progress"}
  \/ outcome \in {"InsufficientNames", "Cancelled", "WriteFailed", "Success"}

\* dividir_pdf was entered in this run.
SplitterCalled ==
  \/ pc \in {"read_excel", "open_pdf", "loop", "write", "progress", "returned"}
  \/ outcome # "none"

ValidFrame(d) == Len(d) > 0 /\ \A r \in 1..Len(d) : ~d[r].isnull

\* C1: on success, the page sequences given to the writers, concatenated in
\* chunk order, are exactly the source pages 0..totalPages-1.
C1_RoundTrip ==
  success = "True" => Flatten(chunks) = [j \in 1..total_paginas |-> j - 1]

C1_Witness ==
  /\ success = "True"
  /\ Len(chunks) >= 3
  /\ Len(chunks[Len(chunks)]) < paginas

\* C2: on success, requiredChunkCount files exist and the file named after
\* NameList[k] holds exactly the pages of chunk k, for every valid name list.
C2_Postcondition ==
  success = "True" =>
    /\ Cardinality(DOMAIN disk) = total_steps
    /\ \A k \in 0..(total_steps - 1) :
         LET name == sanitize_filename(df[k + 1].text) \o PdfExt
         IN /\ name \in DOMAIN disk
            /\ disk[name] = [complete |-> TRUE,
                             pages |-> PageRange(k, paginas, total_paginas)]

\* C3: total_steps is ceil(totalPages / pagesPerFile), an uninterrupted loop
\* runs total_steps iterations, every chunk but the last has pagesPerFile
\* pages and the last has 1..pagesPerFile; 10 pages by 3 give 3,3,3,1.
C3_ChunkCountAndSizes ==
  /\ StepsComputed => total_steps = CeilDiv(total_paginas, paginas)
  /\ outcome = "Success" =>
       attempts = [k \in 1..CeilDiv(total_paginas, paginas) |-> k - 1]
  /\ Len(chunks) = Len(attempts)
  /\ \A k \in 1..Len(chunks) :
       /\ k <= total_steps
       /\ k < total_steps => Len(chunks[k]) = paginas
       /\ k = total_steps => Len(chunks[k]) \in 1..paginas
  /\ TotalSteps(10, 3) = 4
  /\ [k \in 0..3 |-> Len(ChunkPages(3 * k, 3, 10))] = [k \in 0..3 |-> IF k < 3 THEN 3 ELSE 1]

C3_Witness ==
  /\ outcome = "Success"
  /\ total_paginas = 5 /\ paginas = 2
  /\ Len(chunks) = 3 /\ Len(chunks[3]) = 1

\* C4: an empty or incomplete name column (InvalidInput) and too few names
\* (InsufficientNames) end the run with failure before the loop: no file
\* written, no progress reported, the output directory unchanged.
C4_ValidationWritesNothing ==
  /\ outcome \in {"InvalidInput", "InsufficientNames"} =>
       /\ success = "False"
       /\ disk = EmptyDisk /\ chunks = <<>> /\ attempts = <<>>
       /\ writes = <<>> /\ reported = <<>> /\ progress_var = Rat(0, 1)
  /\ outcome = "InvalidInput" => ~ValidFrame(df)
  /\ outcome = "InsufficientNames" =>
       ValidFrame(df) /\ Len(df) < CeilDiv(total_paginas, paginas)
  /\ (pc = "open_pdf" \/ StepsComputed) => ValidFrame(df)
  /\ pc \in {"loop", "write", "progress"} =>
       Len(df) >= CeilDiv(total_paginas, paginas)

C4_Witness ==
  /\ outcome = "InsufficientNames"
  /\ Len(df) = 3 /\ total_steps = 4
  /\ pc = "done"

\* C5: a flag found set at the chunk boundary after k chunks stops the run
\* there: k files written, every one complete and none removed, the return is
\* the cancellation's, and the Shell shows neither its success nor its error
\* message.
C5_Cancellation ==
  /\ [][(pc = "loop" /\ i < total_paginas /\ cancel_operation /\ pc' # "loop")
          => /\ outcome' = "Cancelled" /\ success' = "False"
             /\ pc' = "returned"
             /\ disk' = disk /\ histVars' = histVars]_vars
  /\ [](outcome = "Cancelled" =>
          /\ Len(writes) = i \div paginas
          /\ attempts = [k \in 1..Len(writes) |-> k - 1]
          /\ Len(chunks) = Len(writes)
          /\ i \div paginas < total_steps
          /\ \A k \in 1..Len(writes) :
               writes[k] \in DOMAIN disk /\ disk[writes[k]].complete
          /\ cancel_operation
          /\ "Concluido" \notin Range(dialogs)
          /\ "ErroShell" \notin Range(dialogs)
          /\ dialogs = <<>>)

C5_Witness ==
  /\ outcome = "Cancelled" /\ pc = "done"
  /\ total_steps = 4 /\ Len(writes) = 2

\* C6: the reported values never decrease, the value after chunk k is
\* (k+1)/requiredChunkCount*100, and a successful run ends with 100.
C6_Progress ==
  /\ \A k \in 1..Len(reported) :
       /\ RatEq(reported[k], Rat(k * 100, CeilDiv(total_paginas, paginas)))
       /\ k > 1 => RatLeq(reported[k - 1], reported[k])
  /\ success = "True" =>
       /\ reported # <<>>
       /\ RatEq(reported[Len(reported)], Rat(100, 1))

\* C7: dividir_pdf is entered only with pagesPerFile >= 1 and the three
\* paths filled in; otherwise an error is shown and it is not called.
C7_ShellGuardsPages ==
  /\ SplitterCalled =>
       paginas >= 1 /\ AllFilled(pdf_path, excel_path, output_folder)
  /\ (pc = "done" /\ ~SplitterCalled) => dialogs # <<>>

\* C8: sanitize_filename returns the input without the nine characters,
\* the others in order, trimmed of surrounding whitespace; ".pdf" comes
\* after; "Report/Q1?" gives "ReportQ1".
IsLegalChar(c) == c \notin IllegalChars

C8_Sanitization ==
  /\ sanPc \in {"sanitized", "named"} =>
       LET kept == SelectSeq(sanIn, IsLegalChar)
       IN /\ \E lo \in 1..(Len(kept) + 1), hi \in 0..Len(kept) :
               /\ sanOut = SubSeq(kept, lo, hi)
               /\ \A k \in 1..(lo - 1) : kept[k] \in WhitespaceChars
               /\ \A k \in (hi + 1)..Len(kept) : kept[k] \in WhitespaceChars
          /\ Range(sanOut) \cap IllegalChars = {}
          /\ sanOut # <<>> =>
               sanOut[1] \notin WhitespaceChars
               /\ sanOut[Len(sanOut)] \notin WhitespaceChars
  /\ sanPc = "named" =>
       /\ Len(sanFile) = Len(sanOut) + 4
       /\ SubSeq(sanFile, 1, Len(sanOut)) = sanOut
       /\ SubSeq(sanFile, Len(sanOut) + 1, Len(sanFile)) = <<".", "p", "d", "f">>
  /\ sanitize_filename(<<"R", "e", "p", "o", "r", "t", "/", "Q", "1", "?">>)
       = <<"R", "e", "p", "o", "r", "t", "Q", "1">>

C8_Witness ==
  /\ sanPc = "named"
  /\ sanIn = <<"/", " ", "a">>
  /\ sanFile = <<"a", ".", "p", "d", "f">>

\* C9: a failed write of chunk k returns failure at once: no later chunk is
\* attempted, the write is not retried, no progress is reported for chunk k,
\* and the files written for chunks 0..k-1 stay as they were.
C9_WriteFailureAborts ==
  /\ [][(pc = "write" /\ outcome' = "WriteFailed")
          => /\ success' = "False" /\ pc' = "returned"
             /\ reported' = reported /\ writes' = writes
             /\ \A k \in 1..Len(writes) :
                  /\ writes[k] \in DOMAIN disk'
                  /\ disk'[writes[k]] = disk[writes[k]]]_vars
  /\ [](outcome = "WriteFailed" =>
          /\ attempts = [k \in 1..(Len(writes) + 1) |-> k - 1]
          /\ Len(reported) = Len(writes)
          /\ pc \in {"returned", "done"})

\* C10: the Shell's terminal message matches the outcome whenever the flag
\* is set: its error message after every failure that is not a cancellation,
\* its success message after every success, and no message only after a
\* cancellation.
C10_TerminalMessage ==
  (pc = "done" /\ outcome # "none") =>
    /\ outcome \in {"InvalidInput", "InsufficientNames", "WriteFailed",
                    "Exception"} => "ErroShell" \in Range(dialogs)
    /\ outcome = "Success" => "Concluido" \in Range(dialogs)
    /\ ({"ErroShell", "Concluido"} \cap Range(dialogs) = {})
         => outcome = "Cancelled"

====
